---- MODULE Spec2Model ----
(***************************************************************************)
(* DeepRewire converter: convert_to_deep_rewireable attaches sign and      *)
(* companion tensors to every Linear / Conv2d layer of a module tree and   *)
(* installs the rewire forward pass; convert_from_deep_rewireable merges   *)
(* them back and reinstalls the standard forward pass.                     *)
(*                                                                         *)
(* Tensors are flat sequences of integers (every operation of the          *)
(* converter is elementwise; the forward pass is a dot product plus bias). *)
(* A parameter name is the sequence of its tokens, "weight_signs" being    *)
(* <<"weight", "_signs">>, so that endswith('_signs') and n[:-6] are       *)
(* computed on the name and not looked up.                                 *)
(***************************************************************************)
EXTENDS Integers, Sequences, FiniteSets, TLC

VARIABLES arch, params, forward, last, prev

vars == <<arch, params, forward, last, prev>>

\* Elements of freshly constructed tensors and of optimizer updates lie in
\* -MaxVal .. MaxVal.
MaxVal == 1

\* The layer is a Linear(1, 1) or a Conv2d(1, 1, kernel_size=1): its weight and
\* its bias hold one element each.
WeightIndex == {1}

BiasIndex == {1}

Vals == (0 - MaxVal) .. MaxVal

Policies == {"ignore", "as_connections", "second_bias"}

---------------------------------------------------------------------------
\* The module tree: net -> block -> layer; net and block are containers of a
\* kind the converter does not know, layer is a Linear or a Conv2d.

Nodes == {"net", "block", "layer"}

named_children(n) ==
    CASE n = "net" -> <<"block">>
      [] n = "block" -> <<"layer">>
      [] OTHER -> <<>>

\* getattr(obj, name) for a child module
getattr_child(obj, name) ==
    CHOOSE c \in {named_children(obj)[i] : i \in DOMAIN named_children(obj)} : c = name

IsLinear(n) == arch[n].kind = "Linear"

IsConv2d(n) == arch[n].kind = "Conv2d"

---------------------------------------------------------------------------
\* Parameter names, as token sequences, in registration order.

WEIGHT == <<"weight">>
BIAS == <<"bias">>
WEIGHT_SIGNS == <<"weight", "_signs">>
BIAS_SIGNS == <<"bias", "_signs">>
BIAS_NEGATIVE == <<"bias", "_negative">>

\* Parameters of a module that is neither Linear nor Conv2d: the names are
\* the module author's, and one of them ends in "_signs".
GATE == <<"gate">>
GATE_SIGNS == <<"gate", "_signs">>

NameOrder == <<WEIGHT, BIAS, WEIGHT_SIGNS, BIAS_SIGNS, BIAS_NEGATIVE, GATE, GATE_SIGNS>>

Has(ps, name) == name \in DOMAIN ps

\* module.register_parameter / setattr of a Parameter: adds or overwrites.
Put(ps, name, p) ==
    [k \in (DOMAIN ps) \cup {name} |-> IF k = name THEN p ELSE ps[k]]

\* delattr
Del(ps, name) == [k \in (DOMAIN ps) \ {name} |-> ps[k]]

---------------------------------------------------------------------------
\* Tensor arithmetic (elementwise).  relu is F.relu and value.clamp(min=0).

relu(t) == [i \in DOMAIN t |-> IF t[i] > 0 THEN t[i] ELSE 0]

Mul(a, b) == [i \in DOMAIN a |-> a[i] * b[i]]

Sub(a, b) == [i \in DOMAIN a |-> a[i] - b[i]]

Tensors(index, S) == [index -> S]

\* torch.randint(0, 2, size) * 2 - 1: any tensor over {-1, +1}.
RandomSigns(t) == Tensors(DOMAIN t, {-1, 1})

RECURSIVE Dot(_, _)
Dot(a, b) == IF a = <<>> THEN 0 ELSE a[1] * b[1] + Dot(Tail(a), Tail(b))

---------------------------------------------------------------------------
\* Parameters: nn.Parameter and NonTrainableParameter.

Parameter(data) == [data |-> data, cls |-> "Parameter", rg |-> TRUE]

\* __new__ drops the requires_grad argument and passes False.
NonTrainableParameter(data, requires_grad_arg) ==
    [data |-> data, cls |-> "NonTrainableParameter", rg |-> FALSE]

\* the requires_grad property (getter)
requires_grad(p) == IF p.cls = "NonTrainableParameter" THEN FALSE ELSE p.rg

\* p.requires_grad = value (setter)
set_requires_grad(p, value) ==
    IF p.cls = "NonTrainableParameter" THEN p ELSE [p EXCEPT !.rg = value]

---------------------------------------------------------------------------
\* Sign / bias derivation.

\* None in a tensor-valued slot.
NoneT == <<>>

\* keep_signs=True (preserve mode): the sign of the current value, zero -> +1.
PreserveSigns(t) == [i \in DOMAIN t |-> IF t[i] < 0 THEN -1 ELSE 1]

SignChoices(t, keep_signs) ==
    IF keep_signs THEN {PreserveSigns(t)} ELSE RandomSigns(t)

\* The second_bias branch: bias_negative = -bias; mask = bias >= 0;
\* bias[mask] *= 2 (in place); bias_negative[~mask] *= 2.
SecondBiasInPlace(b) == [i \in DOMAIN b |-> IF b[i] >= 0 THEN b[i] * 2 ELSE b[i]]

SecondBiasNegative(b) ==
    [i \in DOMAIN b |-> IF b[i] >= 0 THEN 0 - b[i] ELSE (0 - b[i]) * 2]

\* get_signs: every (weight_signs, bias_signs, bias_negative) it can return,
\* with the module's parameters after the in-place change of the bias.
get_signs(ps, handle_biases, keep_signs) ==
    LET wss == SignChoices(ps[WEIGHT].data, keep_signs)
    IN IF ~Has(ps, BIAS)
       THEN {[weight_signs |-> ws, bias_signs |-> NoneT, bias_negative |-> NoneT,
              ps |-> ps] : ws \in wss}
       ELSE IF handle_biases = "as_connections"
       THEN {[weight_signs |-> ws, bias_signs |-> bs, bias_negative |-> NoneT,
              ps |-> ps] : ws \in wss, bs \in SignChoices(ps[BIAS].data, keep_signs)}
       ELSE IF handle_biases = "second_bias"
       THEN {[weight_signs |-> ws, bias_signs |-> NoneT,
              bias_negative |-> SecondBiasNegative(ps[BIAS].data),
              ps |-> [ps EXCEPT ![BIAS].data = SecondBiasInPlace(@)]] : ws \in wss}
       ELSE {[weight_signs |-> ws, bias_signs |-> NoneT, bias_negative |-> NoneT,
              ps |-> ps] : ws \in wss}

\* register_params with the sign tensors registered as plain nn.Parameter.
register_params_plain(ps, weight_signs, bias_signs, bias_negative) ==
    LET p1 == Put(ps, WEIGHT_SIGNS, Parameter(weight_signs))
        p2 == IF bias_signs # NoneT
              THEN Put(p1, BIAS_SIGNS, Parameter(bias_signs))
              ELSE p1
    IN IF bias_negative # NoneT
       THEN Put(p2, BIAS_NEGATIVE, Parameter(bias_negative))
       ELSE p2

register_params(ps, weight_signs, bias_signs, bias_negative) ==
    LET p1 == Put(ps, WEIGHT_SIGNS, NonTrainableParameter(weight_signs, FALSE))
        p2 == IF bias_signs # NoneT
              THEN Put(p1, BIAS_SIGNS, NonTrainableParameter(bias_signs, FALSE))
              ELSE p1
    IN IF bias_negative # NoneT
       THEN Put(p2, BIAS_NEGATIVE, Parameter(bias_negative))
       ELSE p2

---------------------------------------------------------------------------
\* Compute paths.  A forward pass returns a tensor, returns None (the
\* function falls off its end) or raises.

Tensor(t) == [kind |-> "tensor", data |-> t]

ReturnsNone == [kind |-> "None", data |-> NoneT]

Raises(e) == [kind |-> e, data |-> NoneT]

\* F.linear(x, weight, bias) with out_features = 1.
F_linear(x, weight, bias) ==
    Tensor(<<Dot(x, weight) + (IF bias = NoneT THEN 0 ELSE bias[1])>>)

padding_mode(n) == "zeros"

\* F.pad(x, mod._reversed_padding_repeated_twice, mode): the layer has padding 0.
F_pad(x, mode) == x

\* F.conv2d of a 1x1 kernel over a 1x1 image.
F_conv2d(x, weight, bias) ==
    Tensor(<<Dot(x, weight) + (IF bias = NoneT THEN 0 ELSE bias[1])>>)

StandardFn == [fn |-> "standard", handle_biases |-> "none"]

linear_forward(x, ps, handle_biases) ==
    IF handle_biases = "as_connections"
    THEN IF Has(ps, BIAS) /\ ~Has(ps, BIAS_SIGNS) THEN Raises("AttributeError")
         ELSE F_linear(x, Mul(relu(ps[WEIGHT].data), ps[WEIGHT_SIGNS].data),
                       IF Has(ps, BIAS)
                       THEN Mul(relu(ps[BIAS].data), ps[BIAS_SIGNS].data)
                       ELSE NoneT)
    ELSE IF handle_biases = "second_bias"
    THEN IF Has(ps, BIAS) /\ ~Has(ps, BIAS_NEGATIVE) THEN Raises("AttributeError")
         ELSE F_linear(x, Mul(relu(ps[WEIGHT].data), ps[WEIGHT_SIGNS].data),
                       IF Has(ps, BIAS)
                       THEN Sub(relu(ps[BIAS].data), relu(ps[BIAS_NEGATIVE].data))
                       ELSE NoneT)
    ELSE ReturnsNone

conv2d_forward(x, n, ps, handle_biases) ==
    IF handle_biases = "as_connections"
    THEN IF Has(ps, BIAS) /\ ~Has(ps, BIAS_SIGNS) THEN Raises("AttributeError")
         ELSE LET bias == IF Has(ps, BIAS)
                          THEN Mul(relu(ps[BIAS].data), ps[BIAS_SIGNS].data)
                          ELSE NoneT
                  w == Mul(relu(ps[WEIGHT].data), ps[WEIGHT_SIGNS].data)
              IN IF padding_mode(n) # "zeros"
                 THEN F_conv2d(F_pad(x, padding_mode(n)), w, bias)
                 ELSE F_conv2d(x, w, bias)
    ELSE IF handle_biases = "second_bias"
    THEN IF ~Has(ps, BIAS) THEN Raises("TypeError")
         ELSE IF ~Has(ps, BIAS_NEGATIVE) THEN Raises("AttributeError")
         ELSE LET bias == Sub(relu(ps[BIAS].data), relu(ps[BIAS_NEGATIVE].data))
                  w == Mul(relu(ps[WEIGHT].data), ps[WEIGHT_SIGNS].data)
              IN IF padding_mode(n) # "zeros"
                 THEN F_conv2d(F_pad(x, padding_mode(n)), w, bias)
                 ELSE F_conv2d(x, w, bias)
    ELSE ReturnsNone

\* The standard compute path of a layer (the class's own forward, and the
\* lambda forward_to_standard installs).
standard_forward(x, n, ps) ==
    LET bias == IF Has(ps, BIAS) THEN ps[BIAS].data ELSE NoneT
    IN IF IsLinear(n) THEN F_linear(x, ps[WEIGHT].data, bias)
       ELSE IF padding_mode(n) # "zeros"
       THEN F_conv2d(F_pad(x, padding_mode(n)), ps[WEIGHT].data, bias)
       ELSE F_conv2d(x, ps[WEIGHT].data, bias)

\* model(x): a container hands x to its child; a layer runs its installed
\* forward.
RECURSIVE Call(_, _, _)
Call(n, x, st) ==
    IF IsLinear(n) \/ IsConv2d(n)
    THEN IF st.forward[n].fn = "linear_forward"
         THEN linear_forward(x, st.params[n], st.forward[n].handle_biases)
         ELSE IF st.forward[n].fn = "conv2d_forward"
         THEN conv2d_forward(x, n, st.params[n], st.forward[n].handle_biases)
         ELSE standard_forward(x, n, st.params[n])
    ELSE Call(named_children(n)[1], x, st)

---------------------------------------------------------------------------
\* convert_to_deep_rewireable.  A model state is [params, forward]; the
\* function returns every state the random draws can leave.

RewireFn(fn, handle_biases) == [fn |-> fn, handle_biases |-> handle_biases]

ConvertLayer(n, st, fn, handle_biases, keep_signs) ==
    {[params |-> [st.params EXCEPT ![n] =
                    register_params(g.ps, g.weight_signs, g.bias_signs,
                                    g.bias_negative)],
      forward |-> [st.forward EXCEPT ![n] = RewireFn(fn, handle_biases)]]
        : g \in get_signs(st.params[n], handle_biases, keep_signs)}

RECURSIVE convert_to_deep_rewireable(_, _, _, _)
RECURSIVE ConvertChildren(_, _, _, _)
convert_to_deep_rewireable(module, st, handle_biases, keep_signs) ==
    LET here == IF IsLinear(module)
                THEN ConvertLayer(module, st, "linear_forward", handle_biases,
                                  keep_signs)
                ELSE IF IsConv2d(module)
                THEN ConvertLayer(module, st, "conv2d_forward", handle_biases,
                                  keep_signs)
                ELSE {st}
    IN UNION {ConvertChildren(named_children(module), s, handle_biases, keep_signs)
                : s \in here}

ConvertChildren(kids, st, handle_biases, keep_signs) ==
    IF kids = <<>> THEN {st}
    ELSE UNION {ConvertChildren(Tail(kids), s, handle_biases, keep_signs)
                  : s \in convert_to_deep_rewireable(Head(kids), st, handle_biases,
                                                     keep_signs)}

---------------------------------------------------------------------------
\* convert_from_deep_rewireable = merge_back ; forward_to_standard.

\* A state_dict key: the dotted name split at the dots into the path of
\* child names and the parameter's own name.
Key(path, leaf) == [path |-> path, leaf |-> leaf]

OwnKeys(ps) ==
    LET present(k) == Has(ps, k)
    IN SelectSeq(NameOrder, present)

PrefixAll(name, keys) ==
    [i \in DOMAIN keys |-> Key(<<name>> \o keys[i].path, keys[i].leaf)]

RECURSIVE state_dict(_, _)
RECURSIVE ChildKeys(_, _)
state_dict(module, P) ==
    LET own == OwnKeys(P[module])
    IN [i \in DOMAIN own |-> Key(<<>>, own[i])] \o ChildKeys(named_children(module), P)

ChildKeys(kids, P) ==
    IF kids = <<>> THEN <<>>
    ELSE PrefixAll(Head(kids), state_dict(Head(kids), P)) \o ChildKeys(Tail(kids), P)

\* n.endswith(suffix)
EndsWith(key, suffix) == key.leaf[Len(key.leaf)] = suffix

\* n[:-6], n[:-9]: the name without its suffix
StripSuffix(key) == Key(key.path, SubSeq(key.leaf, 1, Len(key.leaf) - 1))

\* obj = module; for n in hierarchy[:-1]: obj = getattr(obj, n)
RECURSIVE Resolve(_, _)
Resolve(obj, path) ==
    IF path = <<>> THEN obj ELSE Resolve(getattr_child(obj, Head(path)), Tail(path))

\* merge_signs without the clamp: value * sign.
merge_signs_no_clamp(P, module, p_key, s_key) ==
    LET sobj == Resolve(module, s_key.path)
        sign == P[sobj][s_key.leaf]
        P1 == [P EXCEPT ![sobj] = Del(@, s_key.leaf)]
        pobj == Resolve(module, p_key.path)
        value == P1[pobj][p_key.leaf]
    IN [P1 EXCEPT ![pobj] = Put(@, p_key.leaf, Parameter(Mul(value.data, sign.data)))]

merge_signs(P, module, p_key, s_key) ==
    LET sobj == Resolve(module, s_key.path)
        sign == P[sobj][s_key.leaf]
        P1 == [P EXCEPT ![sobj] = Del(@, s_key.leaf)]
        pobj == Resolve(module, p_key.path)
        value == P1[pobj][p_key.leaf]
    IN [P1 EXCEPT ![pobj] =
          Put(@, p_key.leaf, Parameter(Mul(relu(value.data), sign.data)))]

merge_negative(P, module, p_key, n_key) ==
    LET nobj == Resolve(module, n_key.path)
        neg == P[nobj][n_key.leaf]
        P1 == [P EXCEPT ![nobj] = Del(@, n_key.leaf)]
        pobj == Resolve(module, p_key.path)
        value == P1[pobj][p_key.leaf]
    IN [P1 EXCEPT ![pobj] =
          Put(@, p_key.leaf, Parameter(Sub(relu(value.data), relu(neg.data))))]

RECURSIVE MergeSignsLoop(_, _, _)
MergeSignsLoop(to_merge, P, module) ==
    IF to_merge = <<>> THEN P
    ELSE MergeSignsLoop(Tail(to_merge),
                        merge_signs(P, module, StripSuffix(Head(to_merge)),
                                    Head(to_merge)),
                        module)

RECURSIVE MergeNegativeLoop(_, _, _)
MergeNegativeLoop(to_merge, P, module) ==
    IF to_merge = <<>> THEN P
    ELSE MergeNegativeLoop(Tail(to_merge),
                           merge_negative(P, module, StripSuffix(Head(to_merge)),
                                          Head(to_merge)),
                           module)

merge_back(module, P) ==
    LET is_signs(k) == EndsWith(k, "_signs")
        is_negative(k) == EndsWith(k, "_negative")
        P1 == MergeSignsLoop(SelectSeq(state_dict(module, P), is_signs), P, module)
    IN MergeNegativeLoop(SelectSeq(state_dict(module, P1), is_negative), P1, module)

RECURSIVE forward_to_standard(_, _)
RECURSIVE StandardChildren(_, _)
forward_to_standard(module, F) ==
    LET here == IF IsLinear(module) THEN [F EXCEPT ![module] = StandardFn]
                ELSE IF IsConv2d(module) THEN [F EXCEPT ![module] = StandardFn]
                ELSE F
    IN StandardChildren(named_children(module), here)

StandardChildren(kids, F) ==
    IF kids = <<>> THEN F
    ELSE StandardChildren(Tail(kids), forward_to_standard(Head(kids), F))

convert_from_deep_rewireable(module, st) ==
    [params |-> merge_back(module, st.params),
     forward |-> forward_to_standard(module, st.forward)]

---------------------------------------------------------------------------
\* Sparsity measurement: (number of elements with |x| <= threshold, number
\* of elements), over the tensors of a sequence.

Abs(v) == IF v < 0 THEN 0 - v ELSE v

RECURSIVE CountBelow(_, _)
CountBelow(t, threshold) ==
    IF t = <<>> THEN 0
    ELSE (IF Abs(t[1]) <= threshold THEN 1 ELSE 0) + CountBelow(Tail(t), threshold)

RECURSIVE measure_sparsity(_, _)
measure_sparsity(tensors, threshold) ==
    IF tensors = <<>> THEN <<0, 0>>
    ELSE LET rest == measure_sparsity(Tail(tensors), threshold)
         IN <<CountBelow(tensors[1], threshold) + rest[1], Len(tensors[1]) + rest[2]>>

\* model.parameters(): the tensors of state_dict, in its order.
parameters(module, P) ==
    LET keys == state_dict(module, P)
    IN [i \in DOMAIN keys |-> P[Resolve(module, keys[i].path)][keys[i].leaf].data]

\* Two fractions are the same number.
SameFraction(a, b) == a[1] * b[2] = b[1] * a[2]

---------------------------------------------------------------------------
\* The state machine.

Model == [params |-> params, forward |-> forward]

NoModel == [params |-> <<>>, forward |-> <<>>]

\* The last call: its name, its flag (keep_signs of a convert, the value a
\* set_requires_grad assigned) and the exception it raised.  No call of the converter raises.
Op(op, value) == [op |-> op, value |-> value, error |-> "none"]

\* A freshly constructed model: the layer is a Linear or a Conv2d, with or
\* without a bias; with gated, the block around it is a module of another
\* kind that owns the parameters gate and gate_signs.
Construct(gated) ==
    /\ \E kind \in {"Linear", "Conv2d"}, bias \in BOOLEAN :
         arch = [n \in Nodes |->
                   IF n = "layer" THEN [kind |-> kind, bias |-> bias]
                   ELSE [kind |-> "Other", bias |-> FALSE]]
    /\ \E w \in Tensors(WeightIndex, Vals), b \in Tensors(BiasIndex, Vals) :
         params = [n \in Nodes |->
                     IF n = "net" THEN <<>>
                     ELSE IF n = "block"
                     THEN (IF gated
                           THEN (GATE :> Parameter(<<1>>))
                                    @@ (GATE_SIGNS :> Parameter(<<-1>>))
                           ELSE <<>>)
                     ELSE IF arch[n].bias
                     THEN (WEIGHT :> Parameter(w)) @@ (BIAS :> Parameter(b))
                     ELSE (WEIGHT :> Parameter(w))]
    /\ forward = [n \in Nodes |-> StandardFn]
    /\ last = Op("init", FALSE)
    /\ prev = NoModel

Init == Construct(FALSE)

InitGated == Construct(TRUE)

\* The in-place doubling of second_bias is applied to biases within the
\* range of fresh values only, which keeps every element within twice it.
InRange(P, handle_biases) ==
    handle_biases = "second_bias"
        => \A n \in Nodes :
             Has(P[n], BIAS) => \A i \in DOMAIN P[n][BIAS].data : P[n][BIAS].data[i] \in Vals

Convert(module, handle_biases, keep_signs) ==
    /\ InRange(params, handle_biases)
    /\ \E s \in convert_to_deep_rewireable(module, Model, handle_biases, keep_signs) :
         /\ params' = s.params
         /\ forward' = s.forward
    /\ last' = Op("convert", keep_signs)
    /\ prev' = NoModel
    /\ UNCHANGED arch

Reconvert(module) ==
    /\ LET s == convert_from_deep_rewireable(module, Model)
       IN /\ params' = s.params
          /\ forward' = s.forward
    /\ last' = Op("reconvert", FALSE)
    /\ prev' = Model
    /\ UNCHANGED arch

\* optimizer.step(): an element of a parameter that requires grad moves.
Step(n, k, i, v) ==
    /\ Has(params[n], k)
    /\ requires_grad(params[n][k])
    /\ i \in DOMAIN params[n][k].data
    /\ params[n][k].data[i] # v
    /\ params' = [params EXCEPT ![n][k].data[i] = v]
    /\ last' = Op("step", FALSE)
    /\ prev' = NoModel
    /\ UNCHANGED <<arch, forward>>

\* param.requires_grad = value
SetRequiresGrad(n, k, value) ==
    /\ Has(params[n], k)
    /\ params' = [params EXCEPT ![n][k] = set_requires_grad(@, value)]
    /\ last' = Op("set_requires_grad", value)
    /\ prev' = NoModel
    /\ UNCHANGED <<arch, forward>>

Next ==
    \/ \E m \in Nodes, hb \in Policies, keep \in BOOLEAN : Convert(m, hb, keep)
    \/ \E m \in Nodes : Reconvert(m)
    \/ \E n \in Nodes, k \in {WEIGHT, BIAS, BIAS_NEGATIVE}, i \in WeightIndex \cup BiasIndex,
          v \in Vals : Step(n, k, i, v)
    \/ \E n \in Nodes, k \in {WEIGHT_SIGNS, BIAS_SIGNS, BIAS_NEGATIVE},
          value \in BOOLEAN : SetRequiresGrad(n, k, value)

Spec == Init /\ [][Next]_vars

SpecGated == InitGated /\ [][Next]_vars

---------------------------------------------------------------------------
\* Vocabulary of the properties.

Inputs == Tensors(WeightIndex, Vals)

LayerNodes == {n \in Nodes : IsLinear(n) \/ IsConv2d(n)}

AuxNames == {WEIGHT_SIGNS, BIAS_SIGNS, BIAS_NEGATIVE}

HasAux(ps) == \E k \in AuxNames : Has(ps, k)

\* A model as its constructor leaves it, or as a merge leaves it.
IsStandardModel(st) ==
    \A n \in LayerNodes : st.forward[n].fn = "standard" /\ ~HasAux(st.params[n])

IsRewired(st) == \E n \in LayerNodes : st.forward[n].fn # "standard"

After == [params |-> params', forward |-> forward']

ConvertStep(handle_biases, keep_signs) ==
    \E m \in Nodes : Convert(m, handle_biases, keep_signs)

ReconvertStep == \E m \in Nodes : Reconvert(m)

Max0(v) == IF v > 0 THEN v ELSE 0

KeySet(st) ==
    LET keys == state_dict("net", st.params)
    IN {keys[i] : i \in DOMAIN keys}

\* state_dict().keys() of the standard model of the same architecture.
StandardKeySet ==
    {Key(<<"block", "layer">>, WEIGHT)}
        \cup (IF arch["layer"].bias THEN {Key(<<"block", "layer">>, BIAS)} ELSE {})
        \cup (IF Has(params["block"], GATE)
              THEN {Key(<<"block">>, GATE), Key(<<"block">>, GATE_SIGNS)}
              ELSE {})

Sparsity(st) == measure_sparsity(parameters("net", st.params), 0)

UnsupportedNodes == Nodes \ LayerNodes

\* A node and everything below it.
RECURSIVE Subtree(_)
Subtree(n) ==
    {n} \cup UNION {Subtree(named_children(n)[i]) : i \in DOMAIN named_children(n)}

\* What a node owns: its parameters (names and values) and its forward.
Own(st, n) == [params |-> st.params[n], forward |-> st.forward[n]]

Untouched(n) == Own(After, n) = Own(Model, n)

Converted(st, n) == Has(st.params[n], WEIGHT_SIGNS) /\ st.forward[n].fn # "standard"

Merged(st, n) == ~HasAux(st.params[n]) /\ st.forward[n] = StandardFn

---------------------------------------------------------------------------
\* C1: merging preserves the forward output: for every input, the output of
\* the converted model just before convert_from_deep_rewireable equals the
\* output just after it, for every bias policy.
C1_MergePreservesOutput ==
    (last.op = "reconvert" /\ IsRewired(prev))
        => \A x \in Inputs : Call("net", x, Model) = Call("net", x, prev)

\* C2: converting in preserve-sign mode does not change the output of a
\* standard model for any input, for every layer kind and bias policy.
C2_PreserveConvertIsNoOp ==
    [][\A hb \in Policies :
          (IsStandardModel(Model) /\ ConvertStep(hb, TRUE))
              => \A x \in Inputs : Call("net", x, After) = Call("net", x, Model)]_vars

\* C3: the parameter names of a converted model differ from the standard
\* model's; after the merge they are the standard model's again.
C3_KeySet ==
    /\ IsRewired(Model) => KeySet(Model) # StandardKeySet
    /\ last.op = "convert" => KeySet(Model) # StandardKeySet
    /\ (last.op = "reconvert" /\ IsRewired(prev)) => KeySet(Model) = StandardKeySet

\* C4: a NonTrainableParameter reads requires_grad = False whatever argument
\* it is constructed with and whatever is assigned to it; weight_signs and
\* bias_signs are such parameters, and the bias_negative a convert attaches
\* is an ordinary trainable Parameter.
C4_SignsNeverTrainable ==
    /\ \A arg \in BOOLEAN, v \in BOOLEAN :
         /\ ~requires_grad(NonTrainableParameter(<<1>>, arg))
         /\ ~requires_grad(set_requires_grad(NonTrainableParameter(<<1>>, arg), v))
    /\ \A n \in Nodes : \A k \in {WEIGHT_SIGNS, BIAS_SIGNS} :
         Has(params[n], k)
            => /\ params[n][k].cls = "NonTrainableParameter"
               /\ ~requires_grad(params[n][k])
    /\ \A n \in LayerNodes :
         (last.op = "convert" /\ forward[n].handle_biases = "second_bias"
             /\ Has(params[n], BIAS_NEGATIVE))
            => /\ params[n][BIAS_NEGATIVE].cls = "Parameter"
               /\ requires_grad(params[n][BIAS_NEGATIVE])

C4_Witness ==
    /\ last.op = "set_requires_grad"
    /\ last.value = TRUE
    /\ Has(params["layer"], WEIGHT_SIGNS)
    /\ Has(params["layer"], BIAS_SIGNS)
    /\ ~Has(params["layer"], BIAS_NEGATIVE)
    /\ ~requires_grad(params["layer"][WEIGHT_SIGNS])
    /\ ~requires_grad(params["layer"][BIAS_SIGNS])

\* C5: right after converting a standard layer with a bias under
\* second_bias, every bias element b is stored as bias = 2*max(b,0) and
\* bias_negative = 2*max(-b,0), and relu(bias) - relu(bias_negative) = b.
C5_SecondBiasReconstructs ==
    [][\A keep \in BOOLEAN : \A n \in LayerNodes :
          (IsStandardModel(Model) /\ Has(params[n], BIAS)
              /\ ConvertStep("second_bias", keep))
              => \A i \in DOMAIN params[n][BIAS].data :
                   LET b == params[n][BIAS].data[i]
                       pos == params'[n][BIAS].data[i]
                       neg == params'[n][BIAS_NEGATIVE].data[i]
                   IN /\ pos = 2 * Max0(b)
                      /\ neg = 2 * Max0(0 - b)
                      /\ Max0(pos) - Max0(neg) = b]_vars

\* C6: for every node carrying weight_signs, the merge leaves each weight
\* element at max(magnitude, 0) * sign of the values held just before it
\* (0 where the magnitude was <= 0, the signed magnitude where it was > 0)
\* and removes weight_signs.
C6_MergeBakesZeros ==
    last.op = "reconvert"
        => \A n \in Nodes :
             Has(prev.params[n], WEIGHT_SIGNS)
                => /\ ~Has(params[n], WEIGHT_SIGNS)
                   /\ \A i \in DOMAIN prev.params[n][WEIGHT].data :
                        LET mag == prev.params[n][WEIGHT].data[i]
                            sign == prev.params[n][WEIGHT_SIGNS].data[i]
                            now == params[n][WEIGHT].data[i]
                        IN /\ now = Max0(mag) * sign
                           /\ mag <= 0 => now = 0
                           /\ mag > 0 => now = mag * sign

C6_Witness ==
    /\ last.op = "reconvert"
    /\ Has(prev.params["layer"], WEIGHT_SIGNS)
    /\ prev.params["layer"][WEIGHT].data[1] < 0
    /\ prev.params["layer"][WEIGHT_SIGNS].data[1] = -1
    /\ params["layer"][WEIGHT].data[1] = 0
    /\ ~Has(params["layer"], WEIGHT_SIGNS)

\* C7: the sparsity (elements with |x| <= 0 over all elements, over all of
\* the model's parameter tensors) of a standard model equals its sparsity
\* right after a preserve-mode convert, and that equals its sparsity after
\* the merge that follows.
C7_SparsityInvariant ==
    [][/\ \A hb \in Policies :
            (IsStandardModel(Model) /\ ConvertStep(hb, TRUE))
                => SameFraction(Sparsity(After), Sparsity(Model))
       /\ (last.op = "convert" /\ last.value /\ ReconvertStep)
                => SameFraction(Sparsity(After), Sparsity(Model))]_vars

\* C8: a convert that reaches a layer already carrying weight_signs,
\* bias_signs or bias_negative fails with an error and leaves that layer's
\* tensors as they were.
C8_AlreadyConvertedReported ==
    [][\A hb \in Policies, keep \in BOOLEAN : \A n \in LayerNodes :
          (HasAux(params[n]) /\ ConvertStep(hb, keep))
              => /\ last'.error # "none"
                 /\ params'[n] = params[n]]_vars

\* C9: the forward pass of a converted layer returns the tensor computed
\* with weight relu(weight)*weight_signs and with bias None (no bias), the
\* bias as it is (ignore), relu(bias)*bias_signs (as_connections) or
\* relu(bias) - relu(bias_negative) (second_bias).
C9_RewireForwardDefined ==
    \A n \in LayerNodes :
        forward[n].fn # "standard"
            => \A x \in Inputs :
                 LET ps == params[n]
                     hb == forward[n].handle_biases
                     w == Max0(ps[WEIGHT].data[1]) * ps[WEIGHT_SIGNS].data[1]
                     b == IF ~Has(ps, BIAS) THEN 0
                          ELSE IF hb = "ignore" THEN ps[BIAS].data[1]
                          ELSE IF hb = "as_connections"
                          THEN Max0(ps[BIAS].data[1]) * ps[BIAS_SIGNS].data[1]
                          ELSE Max0(ps[BIAS].data[1])
                                 - Max0(ps[BIAS_NEGATIVE].data[1])
                 IN Call(n, x, Model) = Tensor(<<x[1] * w + b>>)

\* C10: every Linear / Conv2d node is Standard (standard compute path, no
\* auxiliary tensor) or Rewireable (rewire compute path, weight_signs, and
\* exactly the bias auxiliary of the installed path's policy); bias_signs
\* and bias_negative are never both present.
C10_LayerStateConsistent ==
    \A n \in LayerNodes :
        LET ps == params[n]
            hb == forward[n].handle_biases
        IN /\ \/ forward[n].fn = "standard" /\ ~HasAux(ps)
              \/ /\ forward[n].fn # "standard"
                 /\ Has(ps, WEIGHT_SIGNS)
                 /\ Has(ps, BIAS_SIGNS) <=> (hb = "as_connections" /\ Has(ps, BIAS))
                 /\ Has(ps, BIAS_NEGATIVE) <=> (hb = "second_bias" /\ Has(ps, BIAS))
           /\ ~(Has(ps, BIAS_SIGNS) /\ Has(ps, BIAS_NEGATIVE))

\* C11: a node that is neither Linear nor Conv2d is passed through untouched
\* but recursed into: convert_to_deep_rewireable, and
\* convert_from_deep_rewireable of a converted model, called on such a node
\* leave the parameter names, the parameter values and the forward of every
\* such node at or below it unchanged, whatever its parameters are named,
\* and convert, respectively merge, every Linear or Conv2d node below it.
C11_UnsupportedPassedThrough ==
    [][\A m \in UnsupportedNodes :
          /\ (\E hb \in Policies, keep \in BOOLEAN : Convert(m, hb, keep))
                => /\ \A n \in Subtree(m) \cap UnsupportedNodes : Untouched(n)
                   /\ \A n \in Subtree(m) \cap LayerNodes : Converted(After, n)
          /\ (IsRewired(Model) /\ Reconvert(m))
                => /\ \A n \in Subtree(m) \cap UnsupportedNodes : Untouched(n)
                   /\ \A n \in Subtree(m) \cap LayerNodes : Merged(After, n)]_vars

============================================================================
